---- MODULE Spec2Model ----
(***************************************************************************)
(* A model of otpmanager/manager.py: the staged start() of a JavaManager   *)
(* (OTPManager or GraphHopperManager), its persisted stage record, the     *)
(* child process it spawns and the log monitor that reads the child's      *)
(* output.                                                                  *)
(*                                                                          *)
(* Text is modelled as a sequence of tokens.  A token is an indivisible    *)
(* piece of text; "\n" is the line terminator and " " is other whitespace. *)
(* Python values returned by monitor_proc and start() are the strings      *)
(* "True", "False", "None" (and free-form strings for caller-chosen        *)
(* return values).                                                          *)
(***************************************************************************)
EXTENDS Integers, Sequences, FiniteSets, TLC

(***************************************************************************)
(* Bounds of the model                                                      *)
(***************************************************************************)
\* number of orchestrator processes run one after the other on a workspace
MaxRuns == 2
\* length of the port window handed to start() as port_allocation_range
MaxPorts == 3
\* seconds of wall-clock time that pass in one Tick
TickSeconds == 300
\* longest listener list handed to a monitor_proc call on its own
MaxListeners == 2
\* largest num_ports handed to a find_ports call on its own
MaxCount == 3
\* children a manager has spawned when terminate() is called on its own
MaxOwned == 3
\* times a caller repeats start() on the same manager
MaxCalls == 1

(***************************************************************************)
(* Program constants                                                        *)
(***************************************************************************)
DEFAULT_PORT == 8080
DEFAULT_TIMEOUT == 600
PortBase == 8100
PortEnd == 8200
\* "for i in range(3)" of start()
StartAttempts_Four == 3 + 1
StartAttempts == 3
\* num_ports passed by both start_proc methods
StartProcNumPorts == 2
\* timeout = False: monitor_proc never times out
NoTimeout == -1

DEFAULT_PORT_ALLOCATION_RANGE == [k \in 1..(PortEnd - PortBase) |-> PortBase + k - 1]

CONFIG_KEYS ==
  {"osm_download_time", "gtfs_download_time",
   "otp_graph_build_time", "gh_graph_build_time"}

\* the record setup_graph_init creates when no file exists
FreshConfig == [k \in CONFIG_KEYS |-> FALSE]

\* the key of the graph build stage of each manager class
BuildKey(e) == IF e = "otp" THEN "otp_graph_build_time" ELSE "gh_graph_build_time"

(***************************************************************************)
(* Text helpers: readline, rstrip, the "in" operator                        *)
(***************************************************************************)
Whitespace == {"\n", " "}

\* position of the first "\n" in s, 0 when there is none
RECURSIVE NewlineAt(_, _)
NewlineAt(s, k) ==
  IF k > Len(s) THEN 0
  ELSE IF s[k] = "\n" THEN k
  ELSE NewlineAt(s, k + 1)

\* what file.readline() returns on unread content s: through the first
\* newline, or everything there is when no newline has been written yet
ReadlineLen(s) == IF NewlineAt(s, 1) = 0 THEN Len(s) ELSE NewlineAt(s, 1)
Readline(s) == SubSeq(s, 1, ReadlineLen(s))

\* str.rstrip()
RECURSIVE Rstrip(_)
Rstrip(s) ==
  IF s = <<>> THEN s
  ELSE IF s[Len(s)] \in Whitespace THEN Rstrip(SubSeq(s, 1, Len(s) - 1))
  ELSE s

\* sub in line
Contains(sub, line) ==
  \E k \in 0..(Len(line) - Len(sub)) : SubSeq(line, k + 1, k + Len(sub)) = sub

\* truth value Python gives a returned value
Truthy(v) == v \notin {"False", "None"}

(***************************************************************************)
(* find_ports                                                               *)
(***************************************************************************)
\* port_available: a connect to an occupied port succeeds
port_available_Inverted(port, occ) == port \in occ
port_available(port, occ) == port \notin occ

\* the for loop of find_ports from position k on, results collected so far;
\* "found" is FALSE for the return value False, "scanned" counts the ports
\* the loop has called port_available on
RECURSIVE FindPortsFrom(_, _, _, _, _)
FindPortsFrom(port_range, k, results, num_ports, occ) ==
  IF k > Len(port_range)
  THEN [found |-> FALSE, ports |-> <<>>, scanned |-> Len(port_range)]
  ELSE LET r == IF port_available(port_range[k], occ)
                THEN Append(results, port_range[k]) ELSE results
       IN  IF Len(r) = num_ports
           THEN [found |-> TRUE, ports |-> r, scanned |-> k]
           ELSE FindPortsFrom(port_range, k + 1, r, num_ports, occ)

find_ports(port_range, num_ports, occ) ==
  FindPortsFrom(port_range, 1, <<>>, num_ports, occ)

(***************************************************************************)
(* Listeners                                                                *)
(***************************************************************************)
\* A listener dictionary.  "absent" stands for a key the dictionary lacks.
Listener(sub, kill, rv, cb) ==
  [substring |-> sub, kill_otp |-> kill, return_value |-> rv, callback |-> cb]

ExceptionMarker == <<"Exception", "thread">>

ErrorListener == Listener(ExceptionMarker, "True", "False", TRUE)

OTPBuildListeners ==
  <<ErrorListener, Listener(<<"Graph", "written">>, "True", "True", TRUE)>>
GHBuildListeners ==
  <<ErrorListener, Listener(<<"loaded", "graph">>, "True", "True", TRUE)>>
OTPStartListeners ==
  <<ErrorListener, Listener(<<"Grizzly", "running">>, "False", "True", TRUE)>>
GHStartListeners ==
  <<ErrorListener, Listener(<<"Started", "server">>, "False", "True", TRUE)>>

BuildListeners(e) == IF e = "otp" THEN OTPBuildListeners ELSE GHBuildListeners
StartListeners(e) == IF e = "otp" THEN OTPStartListeners ELSE GHStartListeners

\* index of the listener the "for listener in listeners" loop stops at for
\* this line: the first whose substring is in the line; 0 when none is
FirstMatch_Last(ls, line) ==
  IF \E k \in 1..Len(ls) : Contains(ls[k].substring, line)
  THEN CHOOSE k \in 1..Len(ls) :
         /\ Contains(ls[k].substring, line)
         /\ \A j \in (k + 1)..Len(ls) : ~Contains(ls[j].substring, line)
  ELSE 0
RECURSIVE FirstMatchFrom(_, _, _)
FirstMatchFrom(ls, line, k) ==
  IF k > Len(ls) THEN 0
  ELSE IF Contains(ls[k].substring, line) THEN k
  ELSE FirstMatchFrom(ls, line, k + 1)
FirstMatch(ls, line) == FirstMatchFrom(ls, line, 1)

\* what monitor_proc returns when listener l fires
ListenerValue(l) == IF l.return_value # "absent" THEN l.return_value ELSE "None"
\* a monitor that never calls terminate() for a listener
ListenerKills_Never(l) == FALSE
\* whether the fired listener makes monitor_proc call terminate()
ListenerKills(l) == l.kill_otp = "True"
\* whether the callback of the fired listener is reached
ListenerCalls(l) == l.return_value = "absent" /\ l.callback

(***************************************************************************)
(* What a child process writes                                              *)
(***************************************************************************)
BuildMarker(e) == BuildListeners(e)[2].substring
ReadyMarker(e) == StartListeners(e)[2].substring

\* the whole output a child may produce before it falls silent
Scripts(marker) ==
  { <<>>,
    <<"x", "\n">>,
    marker \o <<"\n">>,
    ExceptionMarker \o <<"\n">>,
    marker \o ExceptionMarker \o <<"\n">> }

(***************************************************************************)
(* State                                                                    *)
(***************************************************************************)
VARIABLES
  \* the workspace and the machine
  engine,        \* "otp": an OTPManager, "gh": a GraphHopperManager
  disk,          \* the file otpmanager.json: [st, rec], st is "absent",
                 \* "empty" (truncated, nothing written yet) or "ok"
  osm_file,      \* whether a map file exists in the graph directory
  jar,           \* whether jar_path exists
  procs,         \* every child spawned so far: [kind, alive, kills, run]
  toWrite,       \* output the newest child has not written yet
  buf,           \* content of the newest log file not read yet
  runs,          \* orchestrator processes started so far
  \* the orchestrator process: a manager instance and its start() call
  pc,            \* where the orchestrator is
  args,          \* the arguments of start()
  graph_config,  \* self.graph_config: [none, t]
  using_gtfs,    \* self.using_gtfs
  port,          \* self.port: [set, tuple, n]
  proc,          \* self.proc: index into procs, 0 for None
  ports,         \* the local "ports" of start_proc: what find_ports returned
  atexit,        \* number of times terminate is registered with atexit
  i,             \* the loop variable of "for i in range(3)"
  wret,          \* where write_config returns to
  result,        \* what start() returned, or the exception that left it;
                 \* "none" while it runs
  hostEnd,       \* how the orchestrator process ended: "none" while alive
  \* monitor_proc's frame (kept after the return until the next call)
  listeners,     \* the argument listeners
  timeout,       \* the argument timeout, NoTimeout for False
  idle,          \* time.time() - last_activity
  line,          \* the local "line": the last line read, stripped
  monCaller,     \* who called: "build", "start" or "caller"
  monRet,        \* the value of the last return, "none" during a call
  monExit,       \* the way of the last return: "rule", "timeout", "loop_end"

  \* observation of the current run
  loaded,        \* the record as setup_graph_init loaded it
  invoked,       \* stage actions invoked in this run
  attempts,      \* start_proc calls of this start()
  cbCalls,       \* listener callbacks called by the monitor so far
  calls,         \* start() calls repeated on this manager so far
  \* a call of find_ports on its own
  fpIn, fpOut

envVars == <<engine, disk, osm_file, jar, procs, toWrite, buf, runs>>
hostVars == <<pc, args, graph_config, using_gtfs, port, proc, ports, atexit, i,
              wret, result, hostEnd>>
monVars == <<listeners, timeout, idle, line, monCaller, monRet, monExit>>
obsVars == <<loaded, invoked, attempts, cbCalls, calls>>
fpVars == <<fpIn, fpOut>>
vars == <<envVars, hostVars, monVars, obsVars, fpVars>>

NoConfig == [none |-> TRUE, t |-> FreshConfig]
NoPort == [set |-> FALSE, tuple |-> FALSE, n |-> 0]
NoCall == [port_range |-> <<>>, num_ports |-> 0, occ |-> {}]
NoPorts == [found |-> FALSE, ports |-> <<>>, scanned |-> 0]

\* port_allocation_range of the start() calls of the model
PortWindow == [k \in 1..MaxPorts |-> PortBase + k - 1]

ArgsSet ==
  [dynamically_allocate_ports : BOOLEAN, require_gtfs : BOOLEAN,
   auto_download_jar : BOOLEAN]

\* a manager right after __init__, in a new orchestrator process
FreshHost ==
  /\ pc = "new"
  /\ args \in ArgsSet
  /\ graph_config = NoConfig
  /\ using_gtfs = FALSE
  /\ port = NoPort
  /\ proc = 0
  /\ ports = NoPorts
  /\ atexit = 0
  /\ i = 0
  /\ wret = "none"
  /\ result = "none"
  /\ hostEnd = "none"
  /\ listeners = <<>>
  /\ timeout = NoTimeout
  /\ idle = 0
  /\ line = <<>>
  /\ monCaller = "none"
  /\ monRet = "none"
  /\ monExit = "none"
  /\ loaded = NoConfig
  /\ invoked = {}
  /\ attempts = 0
  /\ cbCalls = 0
  /\ calls = 0

Init ==
  /\ engine \in {"otp", "gh"}
  /\ disk \in ({[st |-> "absent", rec |-> FreshConfig]}
               \cup {[st |-> "ok", rec |-> r] : r \in [CONFIG_KEYS -> BOOLEAN]})
  /\ osm_file = disk.rec["osm_download_time"]
  /\ jar \in BOOLEAN
  /\ procs = <<>>
  /\ toWrite = <<>>
  /\ buf = <<>>
  /\ runs = 1
  /\ FreshHost
  /\ fpIn = NoCall
  /\ fpOut = NoPorts

(***************************************************************************)
(* Children and terminate()                                                 *)
(***************************************************************************)
NewChild(kind) == [kind |-> kind, alive |-> TRUE, kills |-> 0, run |-> runs]

\* self.proc.kill()
Killed_NotIssued(ps, p) == [ps EXCEPT ![p].alive = FALSE]
Killed(ps, p) == [ps EXCEPT ![p].alive = FALSE, ![p].kills = @ + 1]

\* terminate() without its test of self.proc: kills the newest child
TerminateProcs_NoCheck(ps, p) == IF Len(ps) > 0 THEN Killed(ps, Len(ps)) ELSE ps

\* terminate(): kills self.proc when there is one; the caller sets proc to 0
TerminateProcs(ps, p) == IF p # 0 THEN Killed(ps, p) ELSE ps

\* the newest child is the one whose log the monitor reads
Newest == Len(procs)

(***************************************************************************)
(* start(): setup_graph_init and setup_download_data                        *)
(***************************************************************************)
\* "not self.graph_config[key]" is false: the stage is skipped
StageDone_Never(cfg, key) == FALSE
StageDone_Always(cfg, key) == TRUE
StageDone(cfg, key) == cfg.t[key]

Marked(cfg, key) == [cfg EXCEPT !.t[key] = TRUE]

\* start() returns v
Return(v) == result' = v /\ pc' = "returned"

\* an exception of class e leaves start()
Raise_Retried(e) == result' = e /\ pc' = "start"
Raise(e) == result' = e /\ pc' = "raised"

Start ==
  /\ pc = "new"
  /\ pc' = "graph_init"
  /\ UNCHANGED <<envVars, args, graph_config, using_gtfs, port, ports, proc, atexit,
                 i, wret, result, hostEnd, monVars, obsVars, fpVars>>

\* setup_graph_init: json.load raises on a file that holds no record
SetupGraphInit ==
  /\ pc = "graph_init"
  /\ IF disk.st = "empty"
     THEN /\ Raise("ValueError")
          /\ UNCHANGED <<graph_config, loaded>>
     ELSE /\ graph_config' =
               [none |-> FALSE,
                t |-> IF disk.st = "ok" THEN disk.rec ELSE FreshConfig]
          /\ loaded' = graph_config'
          /\ pc' = "osm"
          /\ UNCHANGED result
  /\ UNCHANGED <<envVars, args, using_gtfs, port, ports, proc, atexit, i, wret,
                 hostEnd, monVars, invoked, attempts, cbCalls, calls, fpVars>>

\* download_osm: overpass_dl returns True, False (file below min_size) or
\* None (save_file failed); download_osm returns "osm is not False"
download_osm(o) == o # "False"

\* where setup_download_data goes after the map stage succeeded
AfterOsm_NoWrite == "gtfs"
AfterOsm == "write_open"

SetupDownloadOsm ==
  /\ pc = "osm"
  /\ IF ~StageDone(graph_config, "osm_download_time")
     THEN /\ invoked' = invoked \cup {"download_osm"}
          /\ \E o \in {"True", "False", "None"} :
               /\ osm_file' = (osm_file \/ o # "None")
               /\ IF download_osm(o)
                  THEN /\ graph_config' = Marked(graph_config, "osm_download_time")
                       /\ pc' = AfterOsm
                       /\ wret' = "gtfs"
                       /\ UNCHANGED result
                  ELSE /\ Return("False")
                       /\ UNCHANGED <<graph_config, wret>>
     ELSE /\ pc' = "gtfs"
          /\ UNCHANGED <<invoked, osm_file, graph_config, wret, result>>
  /\ UNCHANGED <<engine, disk, jar, procs, toWrite, buf, runs, args,
                 using_gtfs, port, ports, proc, atexit, i, hostEnd, monVars, loaded,
                 attempts, cbCalls, calls, fpVars>>

\* download_gtfs: transitland_dl returns a count, False, or raises when the
\* query to transit.land cannot be sent
SetupDownloadGtfs ==
  /\ pc = "gtfs"
  /\ IF ~StageDone(graph_config, "gtfs_download_time")
     THEN /\ invoked' = invoked \cup {"download_gtfs"}
          /\ \E o \in {"feeds", "False", "raise"} :
               CASE o = "feeds" ->
                      /\ using_gtfs' = TRUE
                      /\ graph_config' = Marked(graph_config, "gtfs_download_time")
                      /\ pc' = "write_open"
                      /\ wret' = "atexit"
                      /\ UNCHANGED result
                 [] o = "False" ->
                      /\ using_gtfs' = FALSE
                      /\ IF args.require_gtfs
                         THEN Return("False")
                         ELSE pc' = "atexit" /\ UNCHANGED result
                      /\ UNCHANGED <<graph_config, wret>>
                 [] OTHER ->
                      /\ Raise("RequestException")
                      /\ UNCHANGED <<using_gtfs, graph_config, wret>>
     ELSE /\ pc' = "atexit"
          /\ UNCHANGED <<invoked, using_gtfs, graph_config, wret, result>>
  /\ UNCHANGED <<envVars, args, port, ports, proc, atexit, i, hostEnd, monVars,
                 loaded, attempts, cbCalls, calls, fpVars>>

\* write_config, first half: open(path, "w") truncates the file
WriteOpen ==
  /\ pc = "write_open"
  /\ disk' = [st |-> "empty", rec |-> FreshConfig]
  /\ pc' = "write_dump"
  /\ UNCHANGED <<engine, osm_file, jar, procs, toWrite, buf, runs,
                 args, graph_config, using_gtfs, port, ports, proc, atexit, i, wret,
                 result, hostEnd, monVars, obsVars, fpVars>>

\* write_config, second half: json.dump and the close that flushes it
WriteDump ==
  /\ pc = "write_dump"
  /\ disk' = [st |-> "ok", rec |-> graph_config.t]
  /\ pc' = wret
  /\ UNCHANGED <<engine, osm_file, jar, procs, toWrite, buf, runs,
                 args, graph_config, using_gtfs, port, ports, proc, atexit, i, wret,
                 result, hostEnd, monVars, obsVars, fpVars>>

\* the number of registrations of terminate after atexit.register
Registered_Skipped(n) == n
Registered(n) == n + 1

\* atexit.register(self.terminate)
AtexitRegister ==
  /\ pc = "atexit"
  /\ atexit' = Registered(atexit)
  /\ pc' = "engine"
  /\ UNCHANGED <<envVars, args, graph_config, using_gtfs, port, ports, proc, i, wret,
                 result, hostEnd, monVars, obsVars, fpVars>>

(***************************************************************************)
(* monitor_proc                                                             *)
(***************************************************************************)
\* where the caller of monitor_proc continues
AfterMonitor(caller) ==
  CASE caller = "build" -> "built"
    [] caller = "start" -> "started"
    [] OTHER -> "mon_done"

\* the call self.monitor_proc(ls, timeout = t) made by caller c
CallMonitor(ls, t, c) ==
  /\ listeners' = ls
  /\ timeout' = t
  /\ idle' = 0
  /\ line' = <<>>
  /\ monCaller' = c
  /\ monRet' = "none"
  /\ monExit' = "none"
  /\ pc' = "mon"

\* "time.time() - last_activity > timeout" with timeout not False
TimedOut(t, idl) == t # NoTimeout /\ idl > t

\* last_activity after a read: a non-empty line sets it to now
IdleAfterRead_AnyRead(idl, l) == 0
IdleAfterRead(idl, l) == IF Len(l) > 0 THEN 0 ELSE idl

\* monitor_proc returns v by way e; the log file is closed, what the child
\* writes from now on is read by nobody
MonitorReturns(v, e) ==
  /\ monRet' = v
  /\ monExit' = e
  /\ pc' = AfterMonitor(monCaller)
  /\ idle' = 0
  /\ buf' = <<>>
  /\ UNCHANGED <<listeners, timeout, monCaller>>
  /\ toWrite' = <<>>

\* the frame of a monitor_proc call that goes on
MonitorLoops ==
  UNCHANGED <<listeners, timeout, monCaller, monRet, monExit, pc, toWrite,
              procs, proc, cbCalls>>

\* one turn of "while (self.proc is not None)"
MonStep ==
  /\ pc = "mon"
  /\ IF proc = 0
     THEN /\ MonitorReturns("None", "loop_end")
          /\ UNCHANGED <<procs, proc, cbCalls, line>>
     ELSE LET raw == Readline(buf)
              l == Rstrip(raw)
              m == FirstMatch(listeners, l)
          IN  /\ line' = l
              /\ IF Len(l) > 0
                 THEN IF m # 0
                      THEN /\ IF ListenerKills(listeners[m])
                              THEN /\ procs' = TerminateProcs(procs, proc)
                                   /\ proc' = 0
                              ELSE UNCHANGED <<procs, proc>>
                           /\ cbCalls' = cbCalls +
                                (IF ListenerCalls(listeners[m]) THEN 1 ELSE 0)
                           /\ MonitorReturns(ListenerValue(listeners[m]), "rule")
                      ELSE /\ buf' = SubSeq(buf, Len(raw) + 1, Len(buf))
                           /\ idle' = IdleAfterRead(idle, l)
                           /\ MonitorLoops
                 ELSE IF TimedOut(timeout, idle)
                      THEN /\ procs' = TerminateProcs(procs, proc)
                           /\ proc' = 0
                           /\ MonitorReturns("False", "timeout")
                           /\ UNCHANGED cbCalls
                      ELSE /\ buf' = SubSeq(buf, Len(raw) + 1, Len(buf))
                           /\ idle' = IdleAfterRead(idle, l)
                           /\ MonitorLoops
  /\ UNCHANGED <<engine, disk, osm_file, jar, runs, args, graph_config,
                 using_gtfs, port, ports, atexit, i, wret, result, hostEnd,
                 loaded, invoked, attempts, calls, fpVars>>

\* time passes while the monitor polls
Tick ==
  /\ pc = "mon"
  /\ timeout # NoTimeout
  /\ idle <= timeout
  /\ idle' = IF idle + TickSeconds > timeout THEN timeout + 1
             ELSE idle + TickSeconds
  /\ UNCHANGED <<envVars, hostVars, listeners, timeout, line, monCaller,
                 monRet, monExit, obsVars, fpVars>>

\* the child whose log is being read writes some more of its output
ProcWrite ==
  /\ pc = "mon"
  /\ Newest > 0
  /\ procs[Newest].alive
  /\ \E k \in 1..Len(toWrite) :
       /\ buf' = buf \o SubSeq(toWrite, 1, k)
       /\ toWrite' = SubSeq(toWrite, k + 1, Len(toWrite))
  /\ UNCHANGED <<engine, disk, osm_file, jar, procs, runs, hostVars,
                 monVars, obsVars, fpVars>>

\* the child the manager owns exits by itself
ProcExit ==
  /\ proc # 0
  /\ procs[proc].alive
  /\ procs' = [procs EXCEPT ![proc].alive = FALSE]
  /\ toWrite' = IF proc = Newest THEN <<>> ELSE toWrite
  /\ UNCHANGED <<engine, disk, osm_file, jar, buf, runs, hostVars,
                 monVars, obsVars, fpVars>>

(***************************************************************************)
(* start(): setup_routing_engine, build_graph, start_proc                   *)
(***************************************************************************)
\* OTPManager.setup_routing_engine returns False right after the jar check,
\* before the graph build; GraphHopperManager's has no such return
ReturnsAfterJarCheck(e) == e = "otp"

\* subprocess.Popen(..., stdout = fp, stderr = fp) started a child
Spawn(kind, marker) ==
  /\ procs' = Append(procs, NewChild(kind))
  /\ proc' = Len(procs) + 1
  /\ toWrite' \in Scripts(marker)
  /\ buf' = <<>>

\* build_gh_startup_args indexes glob("*.osm")[0]: IndexError with no map file
CommandBuilt(e) == e = "otp" \/ osm_file

SetupRoutingEngine ==
  /\ pc = "engine"
  /\ \E downloaded \in BOOLEAN :
       LET have == jar \/ (args.auto_download_jar /\ downloaded)
       IN  /\ jar' = have
           /\ IF ~have \/ ReturnsAfterJarCheck(engine)
              THEN Return("False")
              ELSE /\ pc' = IF StageDone(graph_config, BuildKey(engine))
                            THEN "start" ELSE "build"
                   /\ UNCHANGED result
  /\ UNCHANGED <<engine, disk, osm_file, procs, toWrite, buf, runs,
                 args, graph_config, using_gtfs, port, ports, proc, atexit, i, wret,
                 hostEnd, monVars, obsVars, fpVars>>

\* build_graph up to its call of monitor_proc
BuildGraph ==
  /\ pc = "build"
  /\ invoked' = invoked \cup {"build_graph"}
  /\ \E launched \in BOOLEAN :
       IF CommandBuilt(engine) /\ launched
       THEN /\ Spawn("build", BuildMarker(engine))
            /\ CallMonitor(BuildListeners(engine), DEFAULT_TIMEOUT, "build")
            /\ UNCHANGED result
       ELSE /\ Raise(IF CommandBuilt(engine) THEN "OSError" ELSE "IndexError")
            /\ UNCHANGED <<procs, proc, toWrite, buf, monVars>>
  /\ UNCHANGED <<engine, disk, osm_file, jar, runs, args,
                 graph_config, using_gtfs, port, ports, atexit, i, wret,
                 hostEnd, loaded, attempts, cbCalls, calls, fpVars>>

\* setup_routing_engine after build_graph returned
AfterBuild_NoWrite == "start"
AfterBuild == "write_open"

BuildReturn ==
  /\ pc = "built"
  /\ IF Truthy(monRet)
     THEN /\ graph_config' = Marked(graph_config, BuildKey(engine))
          /\ pc' = AfterBuild
          /\ wret' = "start"
          /\ UNCHANGED result
     ELSE /\ Return("False")
          /\ UNCHANGED <<graph_config, wret>>
  /\ UNCHANGED <<envVars, args, using_gtfs, port, ports, proc, atexit, i, hostEnd,
                 monVars, obsVars, fpVars>>

\* the loop variable after a start_proc that found no ports returned False
AfterNoPorts_SameTurn(k) == k
AfterNoPorts(k) == k + 1

\* "for i in range(3)" is exhausted
LoopDone(k) == k >= StartAttempts

\* the exception that ends start_proc before its child runs: in static mode
\* OTPManager reads the unbound local "ports"; build_gh_startup_args finds
\* no map file; or Popen cannot launch the command
StartRaises(e, static) ==
  IF static /\ e = "otp" THEN "UnboundLocalError"
  ELSE IF ~CommandBuilt(e) THEN "IndexError"
  ELSE "OSError"

\* the head of the for loop of start(), and start_proc up to its call of
\* monitor_proc; occ is the set of ports something listens on during the scan
StartProc ==
  /\ pc = "start"
  /\ IF LoopDone(i)
     THEN /\ Return("False")
          /\ UNCHANGED <<procs, proc, toWrite, buf, port, ports, i, attempts,
                         monVars>>
     ELSE /\ attempts' = attempts + 1
          /\ \E occ \in SUBSET {PortWindow[k] : k \in 1..MaxPorts} :
               LET found == find_ports(PortWindow, StartProcNumPorts, occ)
               IN  IF args.dynamically_allocate_ports
                   THEN /\ ports' = found
                        /\ IF found.found
                           THEN /\ port' = [set |-> TRUE, tuple |-> FALSE,
                                            n |-> found.ports[1]]
                                /\ UNCHANGED i
                                /\ \E launched \in BOOLEAN :
                                     IF launched /\ CommandBuilt(engine)
                                     THEN /\ Spawn("server", ReadyMarker(engine))
                                          /\ CallMonitor(StartListeners(engine),
                                                         NoTimeout, "start")
                                          /\ UNCHANGED result
                                     ELSE /\ Raise(StartRaises(engine, FALSE))
                                          /\ UNCHANGED <<procs, proc, toWrite,
                                                         buf, monVars>>
                           ELSE \* start_proc returns False
                                /\ i' = AfterNoPorts(i)
                                /\ pc' = "start"
                                /\ UNCHANGED <<procs, proc, toWrite, buf, port,
                                               monVars, result>>
                   ELSE /\ port' = [set |-> TRUE, tuple |-> TRUE,
                                    n |-> DEFAULT_PORT]
                        /\ UNCHANGED <<ports, i>>
                        /\ \E launched \in BOOLEAN :
                             \* OTPManager reads ports[1], which is unbound here
                             IF launched /\ CommandBuilt(engine) /\ engine # "otp"
                             THEN /\ Spawn("server", ReadyMarker(engine))
                                  /\ CallMonitor(StartListeners(engine),
                                                 NoTimeout, "start")
                                  /\ UNCHANGED result
                             ELSE /\ Raise(StartRaises(engine, TRUE))
                                  /\ UNCHANGED <<procs, proc, toWrite, buf,
                                                 monVars>>
  /\ UNCHANGED <<engine, disk, osm_file, jar, runs, args, graph_config,
                 using_gtfs, atexit, wret, hostEnd, loaded, invoked, cbCalls, calls,
                 fpVars>>

\* the body of the for loop after start_proc returned
StartProcReturn ==
  /\ pc = "started"
  /\ IF Truthy(monRet)
     THEN Return("True") /\ UNCHANGED i
     ELSE i' = i + 1 /\ pc' = "start" /\ UNCHANGED result
  /\ UNCHANGED <<envVars, args, graph_config, using_gtfs, port, ports, proc, atexit,
                 wret, hostEnd, monVars, obsVars, fpVars>>

(***************************************************************************)
(* The end of the orchestrator process                                      *)
(***************************************************************************)
Running == pc \notin {"new", "exited", "mon_done", "ports", "ports_done"}

\* the memory of the orchestrator process is gone
HostGone ==
  /\ pc' = "exited"
  /\ graph_config' = NoConfig
  /\ using_gtfs' = FALSE
  /\ port' = NoPort
  /\ proc' = 0
  /\ ports' = NoPorts
  /\ i' = 0
  /\ wret' = "none"
  /\ listeners' = <<>>
  /\ timeout' = NoTimeout
  /\ idle' = 0
  /\ line' = <<>>
  /\ monCaller' = "none"
  /\ monRet' = "none"
  /\ monExit' = "none"
  /\ atexit' = 0
  /\ toWrite' = <<>>
  /\ buf' = <<>>
  /\ loaded' = NoConfig
  /\ invoked' = {}
  /\ attempts' = 0
  /\ cbCalls' = 0
  /\ calls' = 0
  /\ UNCHANGED <<engine, disk, osm_file, jar, runs, args, result, fpVars>>

\* the interpreter exits and runs the atexit handlers: start() has returned
\* or raised ("normal"), or KeyboardInterrupt reached the top ("interrupt")
HostExit(how) ==
  /\ procs' = IF atexit > 0 THEN TerminateProcs(procs, proc) ELSE procs
  /\ hostEnd' = how
  /\ HostGone

NormalExit == pc \in {"returned", "raised"} /\ HostExit("normal")

Interrupt == Running /\ pc \notin {"returned", "raised"} /\ HostExit("interrupt")

\* the process is killed by a signal Python does not handle (SIGTERM,
\* SIGKILL): no atexit handler runs
SignalKill ==
  /\ Running
  /\ hostEnd' = "signal"
  /\ HostGone
  /\ UNCHANGED procs

\* the children that still run
RECURSIVE Alive(_)
Alive(ps) ==
  IF ps = <<>> THEN <<>>
  ELSE IF ps[1].alive THEN <<ps[1]>> \o Alive(Tail(ps))
  ELSE Alive(Tail(ps))

\* a new orchestrator process, with a new manager, on the same workspace
NewRun ==
  /\ pc = "exited"
  /\ runs < MaxRuns
  /\ runs' = runs + 1
  /\ procs' = Alive(procs)
  /\ pc' = "new"
  /\ args' \in ArgsSet
  /\ graph_config' = NoConfig
  /\ using_gtfs' = FALSE
  /\ port' = NoPort
  /\ proc' = 0
  /\ ports' = NoPorts
  /\ atexit' = 0
  /\ i' = 0
  /\ wret' = "none"
  /\ result' = "none"
  /\ hostEnd' = "none"
  /\ listeners' = <<>>
  /\ timeout' = NoTimeout
  /\ idle' = 0
  /\ line' = <<>>
  /\ monCaller' = "none"
  /\ monRet' = "none"
  /\ monExit' = "none"
  /\ loaded' = NoConfig
  /\ invoked' = {}
  /\ attempts' = 0
  /\ cbCalls' = 0
  /\ calls' = 0
  /\ UNCHANGED <<engine, disk, osm_file, jar, toWrite, buf, fpVars>>

Next ==
  \/ Start
  \/ SetupGraphInit
  \/ SetupDownloadOsm
  \/ SetupDownloadGtfs
  \/ WriteOpen
  \/ WriteDump
  \/ AtexitRegister
  \/ SetupRoutingEngine
  \/ BuildGraph
  \/ BuildReturn
  \/ StartProc
  \/ StartProcReturn
  \/ MonStep
  \/ Tick
  \/ ProcWrite
  \/ ProcExit
  \/ NormalExit
  \/ Interrupt
  \/ SignalKill
  \/ NewRun

Spec == Init /\ [][Next]_vars

\* the steps the orchestrator takes by itself
HostStep ==
  \/ Start
  \/ SetupGraphInit
  \/ SetupDownloadOsm
  \/ SetupDownloadGtfs
  \/ WriteOpen
  \/ WriteDump
  \/ AtexitRegister
  \/ SetupRoutingEngine
  \/ BuildGraph
  \/ BuildReturn
  \/ StartProc
  \/ StartProcReturn
  \/ MonStep

\* the orchestrator keeps running and the clock advances
FairSpec == Spec /\ WF_vars(HostStep) /\ WF_vars(Tick)

(***************************************************************************)
(* monitor_proc on its own: a caller with a running child calls             *)
(* self.monitor_proc(listeners, timeout = t) with listeners of its choice   *)
(***************************************************************************)
Substrings == {<<"ERROR">>, <<"O", "K">>}
KillValues == {"absent", "True", "False"}
ReturnValues == {"absent", "Failure", "Success"}

\* every listener dictionary over the substrings
Rules ==
  {Listener(sub, k, rv, cb) :
     sub \in Substrings, k \in KillValues, rv \in ReturnValues, cb \in BOOLEAN}

\* the listeners that may follow the first one of a list
LaterRules ==
  {Listener(sub, c[1], c[2], TRUE) :
     sub \in Substrings, c \in {<<"False", "Success">>, <<"True", "absent">>}}

ListenerLists ==
  {<<>>} \cup
  {<<r>> \o t : r \in Rules,
                t \in UNION {[1..n -> LaterRules] : n \in 0..(MaxListeners - 1)}}

MonScripts ==
  { <<>>,
    <<" ", "\n">>,
    <<"x", "\n", "ERROR", "\n">>,
    <<"O", "K", " ", "\n">>,
    <<"O", "K", "ERROR", "\n">> }

\* every variable the monitor does not touch, at its value after __init__
RestIdle ==
  /\ engine = "gh"
  /\ disk = [st |-> "absent", rec |-> FreshConfig]
  /\ osm_file = FALSE
  /\ jar = TRUE
  /\ runs = 1
  /\ args = [dynamically_allocate_ports |-> TRUE, require_gtfs |-> FALSE,
             auto_download_jar |-> TRUE]
  /\ graph_config = NoConfig
  /\ using_gtfs = FALSE
  /\ port = NoPort
  /\ ports = NoPorts
  /\ atexit = 0
  /\ i = 0
  /\ wret = "none"
  /\ result = "none"
  /\ hostEnd = "none"
  /\ loaded = NoConfig
  /\ invoked = {}
  /\ attempts = 0
  /\ cbCalls = 0
  /\ calls = 0

MonInit ==
  /\ RestIdle
  /\ pc = "mon"
  /\ procs = <<[kind |-> "server", alive |-> TRUE, kills |-> 0, run |-> 1]>>
  /\ proc = 1
  /\ toWrite \in MonScripts
  /\ buf = <<>>
  /\ listeners \in ListenerLists
  /\ timeout \in {NoTimeout, DEFAULT_TIMEOUT}
  /\ idle = 0
  /\ line = <<>>
  /\ monCaller = "caller"
  /\ monRet = "none"
  /\ monExit = "none"
  /\ fpIn = NoCall
  /\ fpOut = NoPorts

MonNext ==
  \/ MonStep
  \/ Tick
  \/ ProcWrite
  \/ ProcExit

SpecMon == MonInit /\ [][MonNext]_vars

\* the monitor loop runs and the clock advances
FairSpecMon == SpecMon /\ WF_vars(MonStep) /\ WF_vars(Tick)

(***************************************************************************)
(* monitor_proc reading a log the child keeps writing                       *)
(***************************************************************************)
\* monitor_proc(listeners, timeout = False) on a child that stays alive
ReadInit == MonInit /\ timeout = NoTimeout

ReadNext ==
  \/ MonStep
  \/ ProcWrite

\* the monitor loop keeps polling and the child writes all of its output
FairSpecRead ==
  ReadInit /\ [][ReadNext]_vars /\ WF_vars(MonStep) /\ WF_vars(ProcWrite)

(***************************************************************************)
(* find_ports on its own                                                    *)
(***************************************************************************)
\* the ports lo..hi in ascending order, as range(lo, hi + 1)
PortRange(lo, hi) == [k \in 1..(hi - lo + 1) |-> lo + k - 1]

PortCalls ==
  {[port_range |-> PortRange(lo, hi), num_ports |-> n, occ |-> occ] :
     lo \in PortBase..(PortBase + MaxPorts),
     hi \in (PortBase - 1)..(PortBase + MaxPorts - 1),
     n \in 1..MaxCount,
     occ \in SUBSET (PortBase..(PortBase + MaxPorts - 1))}
  \cup
  {[port_range |-> DEFAULT_PORT_ALLOCATION_RANGE, num_ports |-> n,
    occ |-> (PortBase..(PortEnd - 1)) \ {8105, 8107}] : n \in 1..MaxCount}

PortsInit ==
  /\ RestIdle
  /\ pc = "ports"
  /\ procs = <<>>
  /\ proc = 0
  /\ toWrite = <<>>
  /\ buf = <<>>
  /\ listeners = <<>>
  /\ timeout = NoTimeout
  /\ idle = 0
  /\ line = <<>>
  /\ monCaller = "none"
  /\ monRet = "none"
  /\ monExit = "none"
  /\ fpIn \in PortCalls
  /\ fpOut = NoPorts

FindPortsCall ==
  /\ pc = "ports"
  /\ fpOut' = find_ports(fpIn.port_range, fpIn.num_ports, fpIn.occ)
  /\ pc' = "ports_done"
  /\ UNCHANGED <<envVars, args, graph_config, using_gtfs, port, proc, ports,
                 atexit, i, wret, result, hostEnd, monVars, obsVars, fpIn>>

SpecPorts == PortsInit /\ [][FindPortsCall]_vars

(***************************************************************************)
(* start() called again on the same manager, in the same process            *)
(***************************************************************************)
\* the caller repeats its start() call after it returned; self.proc,
\* self.port and the atexit registrations are those the earlier call left
StartAgain ==
  /\ pc = "returned"
  /\ calls < MaxCalls
  /\ calls' = calls + 1
  /\ pc' = "graph_init"
  /\ result' = "none"
  /\ i' = 0
  /\ ports' = NoPorts
  /\ wret' = "none"
  /\ loaded' = NoConfig
  /\ invoked' = {}
  /\ attempts' = 0
  /\ UNCHANGED <<envVars, args, graph_config, using_gtfs, port, proc, atexit,
                 hostEnd, monVars, cbCalls, fpVars>>

NextReuse ==
  \/ Start
  \/ SetupGraphInit
  \/ SetupDownloadOsm
  \/ SetupDownloadGtfs
  \/ WriteOpen
  \/ WriteDump
  \/ AtexitRegister
  \/ SetupRoutingEngine
  \/ BuildGraph
  \/ BuildReturn
  \/ StartProc
  \/ StartProcReturn
  \/ MonStep
  \/ Tick
  \/ ProcWrite
  \/ ProcExit
  \/ NormalExit
  \/ Interrupt
  \/ SignalKill
  \/ StartAgain

\* one orchestrator process whose manager may be started several times
SpecReuse == Init /\ [][NextReuse]_vars

(***************************************************************************)
(* terminate() on its own: a caller holding a manager calls it repeatedly   *)
(***************************************************************************)
\* a child that runs, one that exited by itself, one that was killed
ChildStates ==
  {[kind |-> k, alive |-> a[1], kills |-> a[2], run |-> 1] :
     k \in {"build", "server"}, a \in {<<TRUE, 0>>, <<FALSE, 0>>, <<FALSE, 1>>}}

\* self.proc is the child spawned last, or None after terminate() killed it
TermInit ==
  /\ RestIdle
  /\ pc = "term"
  /\ procs \in UNION {[1..n -> ChildStates] : n \in 0..MaxOwned}
  /\ proc \in {0, Len(procs)}
  /\ proc # 0 => procs[proc].kills = 0
  /\ (proc = 0 /\ Len(procs) > 0) => procs[Len(procs)].kills = 1
  /\ toWrite = <<>>
  /\ buf = <<>>
  /\ listeners = <<>>
  /\ timeout = NoTimeout
  /\ idle = 0
  /\ line = <<>>
  /\ monCaller = "none"
  /\ monRet = "none"
  /\ monExit = "none"
  /\ fpIn = NoCall
  /\ fpOut = NoPorts

\* self.terminate(); pc counts the calls: "term", "term1", "term2"
TerminateCall ==
  /\ pc \in {"term", "term1", "term2"}
  /\ procs' = TerminateProcs(procs, proc)
  /\ proc' = 0
  /\ pc' = IF pc = "term" THEN "term1" ELSE "term2"
  /\ UNCHANGED <<engine, disk, osm_file, jar, toWrite, buf, runs, args,
                 graph_config, using_gtfs, port, ports, atexit, i, wret, result,
                 hostEnd, monVars, obsVars, fpVars>>

TermNext ==
  \/ TerminateCall
  \/ ProcExit

SpecTerm == TermInit /\ [][TermNext]_vars

(***************************************************************************)
(* start_proc on its own: the loop of start(), or a caller that did the     *)
(* setup and the build itself, calls start_proc up to three times           *)
(***************************************************************************)
\* the record after the map stage and the build of engine e
BuiltRecords(e) ==
  {r \in [CONFIG_KEYS -> BOOLEAN] :
     /\ r["osm_download_time"]
     /\ r[BuildKey(e)]
     /\ \A key \in CONFIG_KEYS \ {"osm_download_time", "gtfs_download_time",
                                   BuildKey(e)} : ~r[key]}

StartProcInit ==
  /\ engine \in {"otp", "gh"}
  /\ disk \in {[st |-> "ok", rec |-> r] : r \in BuiltRecords(engine)}
  /\ osm_file = TRUE
  /\ jar = TRUE
  /\ procs = <<>>
  /\ toWrite = <<>>
  /\ buf = <<>>
  /\ runs = 1
  /\ pc = "start"
  /\ args \in ArgsSet
  /\ graph_config = [none |-> FALSE, t |-> disk.rec]
  /\ using_gtfs = FALSE
  /\ port = NoPort
  /\ proc = 0
  /\ ports = NoPorts
  /\ atexit = 1
  /\ i = 0
  /\ wret = "none"
  /\ result = "none"
  /\ hostEnd = "none"
  /\ listeners = <<>>
  /\ timeout = NoTimeout
  /\ idle = 0
  /\ line = <<>>
  /\ monCaller = "none"
  /\ monRet = "none"
  /\ monExit = "none"
  /\ loaded = graph_config
  /\ invoked = {}
  /\ attempts = 0
  /\ cbCalls = 0
  /\ calls = 0
  /\ fpIn = NoCall
  /\ fpOut = NoPorts

StartProcNext ==
  \/ StartProc
  \/ StartProcReturn
  \/ MonStep
  \/ ProcWrite
  \/ ProcExit

SpecStartProc == StartProcInit /\ [][StartProcNext]_vars

(***************************************************************************)
(* terminate() called from outside while start() monitors a start attempt   *)
(***************************************************************************)
\* terminate(*dummy_args), as a signal handler or a stop request, runs
\* between two turns of the monitor loop
TerminateWhileMonitoring ==
  /\ pc = "mon"
  /\ proc # 0
  /\ procs' = TerminateProcs(procs, proc)
  /\ proc' = 0
  /\ UNCHANGED <<engine, disk, osm_file, jar, toWrite, buf, runs, pc, args,
                 graph_config, using_gtfs, port, ports, atexit, i, wret,
                 result, hostEnd, monVars, obsVars, fpVars>>

StopNext ==
  \/ StartProcNext
  \/ TerminateWhileMonitoring

SpecStop == StartProcInit /\ [][StopNext]_vars

(***************************************************************************)
(* Properties                                                               *)
(***************************************************************************)
\* the persisted record holds a marker for key
DiskHas(key) == disk.st = "ok" /\ disk.rec[key]

\* the record setup_graph_init loaded marks key complete
LoadedHas(key) == ~loaded.none /\ loaded.t[key]

\* C1: a stage that the record loaded by setup_graph_init marks complete is
\* not invoked by this run of start(): no download_osm when the map marker
\* was loaded, no download_gtfs when the transit marker was loaded, no
\* build_graph when the manager's graph build marker was loaded; in the
\* first run and in every later run on the same workspace.
C1_StageSkip ==
  /\ LoadedHas("osm_download_time") => "download_osm" \notin invoked
  /\ LoadedHas("gtfs_download_time") => "download_gtfs" \notin invoked
  /\ LoadedHas(BuildKey(engine)) => "build_graph" \notin invoked

\* a second run on a workspace whose three stages are marked has started
\* the server without invoking any stage
C1_Witness ==
  /\ runs = 2
  /\ pc = "returned"
  /\ result = "True"
  /\ LoadedHas("osm_download_time")
  /\ LoadedHas("gtfs_download_time")
  /\ LoadedHas(BuildKey(engine))
  /\ invoked = {}

\* C2: a start() that loaded a record with the map, transit and graph build
\* stages marked and finds the engine binary present invokes no stage and
\* goes from setup_routing_engine straight to the start step, the first call
\* of start_proc (unless the process ends first).
C2_ResumeReachesStart ==
  [][ ( /\ pc = "engine"
        /\ jar
        /\ LoadedHas("osm_download_time")
        /\ LoadedHas("gtfs_download_time")
        /\ LoadedHas(BuildKey(engine)) )
      => (pc' \in {"start", "exited"} /\ invoked' = {}) ]_vars

C3_Inv ==
  (~graph_config.none /\ pc \notin {"write_open", "write_dump"})
  => IF disk.st = "absent" THEN graph_config.t = FreshConfig
     ELSE disk.st = "ok" /\ disk.rec = graph_config.t

C3_Order ==
  /\ ("download_gtfs" \in invoked' /\ "download_gtfs" \notin invoked)
     => DiskHas("osm_download_time")
  /\ ("build_graph" \in invoked' /\ "build_graph" \notin invoked)
     => /\ DiskHas("osm_download_time")
        /\ graph_config.t["gtfs_download_time"] => DiskHas("gtfs_download_time")
  /\ (attempts' = attempts + 1) => DiskHas(BuildKey(engine))

\* C3: the marker of a stage that succeeded is in the persisted record before
\* the next stage's action begins: the map marker when download_gtfs begins,
\* the map marker and the transit marker (when the transit stage succeeded)
\* when build_graph begins, the graph build marker when start_proc is first
\* called; and outside write_config the persisted record holds every marker
\* the manager holds in memory, so the end of the process at any such point
\* leaves every completed stage marked.
C3_PersistedBeforeNextStage == [] C3_Inv /\ [][C3_Order]_vars

\* one run has gone through every stage and is about to start the server
C3_Witness ==
  /\ pc = "start"
  /\ invoked = {"download_osm", "download_gtfs", "build_graph"}
  /\ DiskHas("osm_download_time")
  /\ DiskHas("gtfs_download_time")
  /\ DiskHas(BuildKey(engine))

\* C4: at every instant the stage record file is absent or holds a complete
\* record, the previous one or the new one; it is never empty or partly
\* written.
C4_RecordAlwaysComplete == disk.st \in {"absent", "ok"}

\* k is the lowest index of a listener whose substring is in line l
Lowest(ls, l, k) ==
  /\ k \in 1..Len(ls)
  /\ Contains(ls[k].substring, l)
  /\ \A j \in 1..(k - 1) : ~Contains(ls[j].substring, l)

\* the return_value of a listener, None when it has none
ValueOf(lst) == IF lst.return_value = "absent" THEN "None" ELSE lst.return_value

C5_Inv ==
  monExit = "rule" =>
    /\ Len(line) > 0
    /\ \E k \in 1..Len(listeners) :
         Lowest(listeners, line, k) /\ monRet = ValueOf(listeners[k])

C5_Step ==
  LET l == Rstrip(Readline(buf))
  IN  \A k \in 1..Len(listeners) :
        (MonStep /\ proc # 0 /\ Len(l) > 0 /\ Lowest(listeners, l, k))
        => /\ pc' # "mon"
           /\ monExit' = "rule"
           /\ monRet' = ValueOf(listeners[k])
           /\ procs' # procs => listeners[k].kill_otp = "True"
           /\ cbCalls' # cbCalls => (cbCalls' = cbCalls + 1 /\ listeners[k].callback)

\* C5: when the monitor reads a non-empty line that holds the substring of
\* some listener, it returns at once, with the return_value of the
\* lowest-indexed such listener (None when that listener has none); only
\* that listener's kill and callback can take effect; and every return
\* through a listener is of this kind.
C5_FirstMatchWins == [] C5_Inv /\ [][C5_Step]_vars

\* rules [ERROR -> Failure, OK -> Success] and a line holding both
C5_Witness ==
  /\ pc = "mon_done"
  /\ monExit = "rule"
  /\ Len(listeners) = 2
  /\ listeners[1].substring = <<"ERROR">>
  /\ listeners[1].return_value = "Failure"
  /\ listeners[2].substring = <<"O", "K">>
  /\ listeners[2].return_value = "Success"
  /\ line = <<"O", "K", "ERROR">>
  /\ monRet = "Failure"

\* nothing but whitespace is left to read or to be written
Silent ==
  /\ \A k \in 1..Len(buf) : buf[k] \in Whitespace
  /\ \A k \in 1..Len(toWrite) : toWrite[k] \in Whitespace

C6_TimeoutStep ==
  (pc = "mon" /\ monExit' = "timeout") =>
    /\ timeout # NoTimeout
    /\ idle > timeout
    /\ Len(Rstrip(Readline(buf))) = 0
    /\ monRet' = "False"
    /\ pc' # "mon"
    /\ proc # 0
    /\ proc' = 0
    /\ ~procs'[proc].alive
    /\ procs'[proc].kills = procs[proc].kills + 1

C6_ResetStep ==
  (pc = "mon" /\ pc' = "mon" /\ idle' < idle) =>
    (idle' = 0 /\ Len(Rstrip(Readline(buf))) > 0)

\* C6: with a timeout set, a monitor whose child has no non-empty line left
\* to give returns, by the timeout; a return by the timeout happens on an
\* empty read more than timeout after the last activity, kills the child and
\* returns False; and the time since the last activity goes back to zero
\* only on the read of a non-empty line.
C6_Timeout ==
  /\ [][C6_TimeoutStep /\ C6_ResetStep]_vars
  /\ (pc = "mon" /\ timeout # NoTimeout /\ proc # 0 /\ Silent)
       ~> (pc = "mon_done" /\ monExit = "timeout" /\ monRet = "False")

\* a child that wrote only a blank line was killed by the timeout
C6_Witness ==
  /\ pc = "mon_done"
  /\ monExit = "timeout"
  /\ monRet = "False"
  /\ timeout = DEFAULT_TIMEOUT
  /\ proc = 0
  /\ procs[1].kills = 1
  /\ line = <<>>

\* C7: once the child has exited, the monitor returns, whatever the timeout.
C7_ReturnsAfterExit ==
  (pc = "mon" /\ proc # 0 /\ ~procs[proc].alive) ~> (pc # "mon")

C8_Inv ==
  /\ attempts <= 3
  /\ (pc = "returned" /\ result = "True") => (attempts >= 1 /\ Truthy(monRet))
  /\ (pc = "returned" /\ result = "False" /\ attempts >= 1) => attempts = 3

C8_Step ==
  /\ attempts' > attempts => (attempts' = attempts + 1 /\ result = "none")
  /\ (pc = "started" /\ Truthy(monRet) /\ pc' \notin {"started", "exited"})
     => (pc' = "returned" /\ result' = "True" /\ attempts' = attempts)
  /\ (pc = "started" /\ pc' = "returned" /\ result' = "False")
     => (~Truthy(monRet) /\ attempts = 3)

\* C8: one start() calls start_proc at most 3 times; the first call that
\* succeeds makes start() return True with no further call; start() returns
\* False from the start step only after 3 failed calls, and returns after the
\* third without a fourth.
C8_RetryBound == [] C8_Inv /\ [][C8_Step]_vars

\* three servers were spawned, each was killed, and start() returned False
C8_Witness ==
  /\ pc = "returned"
  /\ result = "False"
  /\ attempts = 3
  /\ Cardinality({p \in 1..Len(procs) :
                    /\ procs[p].kind = "server"
                    /\ procs[p].run = runs
                    /\ procs[p].kills = 1}) = 3

\* the positions of the free ports of a range
FreeAt(port_range, occ) == {k \in 1..Len(port_range) : port_range[k] \notin occ}

\* the position of the m-th free port
NthFree(port_range, occ, m) ==
  CHOOSE k \in FreeAt(port_range, occ) :
    Cardinality({j \in FreeAt(port_range, occ) : j <= k}) = m

C10_NoChildLeftAlive ==
  pc = "exited" =>
    \A p \in 1..Len(procs) : procs[p].run = runs => ~procs[p].alive

\* the live children this orchestrator process spawned
OwnLive == {p \in 1..Len(procs) : procs[p].run = runs /\ procs[p].alive}

\* C11: while the orchestrator runs, at most one child that this manager
\* spawned is alive, and that child is self.proc.
C11_SingleOwnership ==
  pc # "exited" => (Cardinality(OwnLive) <= 1 /\ \A p \in OwnLive : p = proc)

\* the map stage is invoked by this step and leaves no map file behind:
\* the fetch from the Overpass API failed
OsmFetchFailed ==
  /\ "download_osm" \notin invoked
  /\ "download_osm" \in invoked'
  /\ ~osm_file'

\* C12: when the map download is invoked and its fetch fails, start()
\* returns False at once, with the map stage unmarked and no later stage
\* invoked.
C12_MapStageMandatory ==
  [][ OsmFetchFailed =>
        /\ pc' = "returned"
        /\ result' = "False"
        /\ ~graph_config'.t["osm_download_time"]
        /\ invoked' = {"download_osm"} ]_vars

\* the transit stage is invoked by this step and does not succeed
GtfsFailed ==
  /\ "download_gtfs" \notin invoked
  /\ "download_gtfs" \in invoked'
  /\ ~graph_config'.t["gtfs_download_time"]

\* C13: when the transit download is invoked and fails, start() ends there
\* if and only if require_gtfs is set, and then by returning False;
\* otherwise it goes on; the record in memory and on disk is left as it was.
C13_TransitFatalIffRequired ==
  [][ GtfsFailed =>
        /\ (pc' \in {"returned", "raised"}) <=> args.require_gtfs
        /\ pc' = "returned" => result' = "False"
        /\ graph_config' = graph_config
        /\ disk' = disk ]_vars

C14_Inv ==
  /\ \A p \in 1..Len(procs) : procs[p].kills <= 1
  /\ pc \in {"term1", "term2"} => proc = 0

C14_Step ==
  TerminateCall =>
    /\ proc' = 0
    /\ IF proc = 0
       THEN procs' = procs
       ELSE procs' = [procs EXCEPT ![proc] =
                        [kind |-> @.kind, alive |-> FALSE, kills |-> @.kills + 1,
                         run |-> @.run]]
    /\ pc # "term" => procs' = procs

\* C14: terminate() with no owned process changes no process and no
\* ownership; with an owned process it kills that process once and sets
\* self.proc to None; a call after the first changes nothing, and no
\* process is killed more than once.
C14_TerminateIdempotent == [] C14_Inv /\ [][C14_Step]_vars

\* terminate() was called twice on a manager that owned a running server
C14_Witness ==
  /\ pc = "term2"
  /\ proc = 0
  /\ Len(procs) = 1
  /\ procs[1] = [kind |-> "server", alive |-> FALSE, kills |-> 1, run |-> 1]

\* the children this orchestrator process spawned
Own == {p \in 1..Len(procs) : procs[p].run = runs}

C15_Inv ==
  /\ atexit <= 1
  /\ (pc # "exited" /\ (Own # {} \/ attempts >= 1 \/ pc \in {"build", "start"}))
     => atexit = 1
  /\ \A p \in 1..Len(procs) : procs[p].kills <= 1

C15_ExitStep ==
  (pc # "exited" /\ hostEnd' \in {"normal", "interrupt"} /\ proc # 0) =>
    /\ procs[proc].kills = 0
    /\ procs'[proc].kills = 1
    /\ ~procs'[proc].alive
    /\ \A p \in 1..Len(procs) : p # proc => procs'[p] = procs[p]

\* C15: a start() call registers terminate with atexit once, whatever the
\* number of start attempts, and has done so before anything can spawn a
\* child; when the interpreter exits and runs its exit handlers, the owned
\* process is killed once, and no process is ever killed twice.
C15_RegisteredOnce == [] C15_Inv /\ [][C15_ExitStep]_vars

\* start() returned True on its second attempt and the process then exited:
\* the first server was killed by the monitor, the second by the exit handler
C15_Witness ==
  /\ pc = "exited"
  /\ hostEnd = "normal"
  /\ result = "True"
  /\ Len(procs) = 2
  /\ \A p \in 1..2 : procs[p] = [kind |-> "server", alive |-> FALSE,
                                 kills |-> 1, run |-> runs]

\* this step ends start() in failure: it returns False or raises
FailingEnd ==
  /\ pc \notin {"returned", "raised", "exited"}
  /\ \/ pc' = "returned" /\ result' = "False"
     \/ pc' = "raised"

\* a failing end writes nothing, and every marker that was loaded is on disk
C16_Frame ==
  FailingEnd =>
    /\ disk' = disk
    /\ graph_config' = graph_config
    /\ ~loaded.none =>
         \A key \in CONFIG_KEYS : loaded.t[key] => DiskHas(key)

\* no step of a start() call takes a marker out of the record in memory
C16_Monotone ==
  (~graph_config.none /\ ~graph_config'.none) =>
    \A key \in CONFIG_KEYS : graph_config.t[key] => graph_config'.t[key]

\* the stage that failed is not marked
C16_FailedUnmarked ==
  /\ OsmFetchFailed => ~graph_config'.t["osm_download_time"]
  /\ (FailingEnd /\ pc = "osm") => ~DiskHas("osm_download_time")
  /\ (FailingEnd /\ pc = "gtfs") => ~DiskHas("gtfs_download_time")
  /\ (FailingEnd /\ pc \in {"build", "built"}) => ~DiskHas(BuildKey(engine))

\* the next start() loads exactly the markers that are on disk
C16_Resume ==
  (pc = "graph_init" /\ pc' = "osm") =>
    \A key \in CONFIG_KEYS : loaded'.t[key] <=> DiskHas(key)

\* C16: a start() that fails leaves the persisted record as it was, with
\* every marker it loaded still on disk; no step clears a marker; the stage
\* that failed is not marked; and the next start() loads exactly what is on
\* disk.
C16_ProgressPreserved ==
  [][C16_Frame /\ C16_Monotone /\ C16_FailedUnmarked /\ C16_Resume]_vars

\* the build children this orchestrator process spawned
OwnBuilds == {p \in Own : procs[p].kind = "build"}

\* build_graph has returned a value that is not true
BuildFailed == monCaller = "build" /\ pc \notin {"mon", "built"} /\ ~Truthy(monRet)

C17_Inv ==
  /\ Cardinality(OwnBuilds) <= 1
  /\ (monCaller = "build" /\ monExit = "timeout") => monRet = "False"
  /\ (monCaller = "build" /\ monExit = "rule" /\ Contains(ExceptionMarker, line))
     => monRet = "False"
  /\ (BuildFailed /\ pc # "exited") =>
       /\ pc \in {"returned"}
       /\ result = "False"
       /\ attempts = 0
       /\ \A p \in Own : procs[p].kind # "server"
       /\ ~graph_config.t[BuildKey(engine)]
       /\ ~DiskHas(BuildKey(engine)) \/ LoadedHas(BuildKey(engine))
  /\ (pc = "start" /\ "build_graph" \in invoked) =>
       (DiskHas(BuildKey(engine)) /\ (attempts = 0 => monRet = "True"))

C17_Step ==
  /\ (~graph_config.none /\ ~graph_config'.none
      /\ ~graph_config.t[BuildKey(engine)] /\ graph_config'.t[BuildKey(engine)])
     => /\ pc = "built"
        /\ monRet = "True"
        /\ monExit = "rule"
        /\ Contains(BuildMarker(engine), line)
        /\ ~Contains(ExceptionMarker, line)
  /\ (pc = "built" /\ pc' \notin {"built", "exited"}) =>
       IF monRet = "True"
       THEN graph_config'.t[BuildKey(engine)] /\ pc' = "write_open"
       ELSE pc' = "returned" /\ result' = "False" /\ graph_config' = graph_config

\* C17: the graph-build marker is set, and then written, exactly when the
\* monitor of the build returned True, which it does on a line with the
\* completion marker and no error marker; when the build hits the error
\* rule or the timeout, the marker is not written, start() returns False,
\* no second build and no server is spawned in that run.
C17_BuildOutcome == [] C17_Inv /\ [][C17_Step]_vars

\* a silent GraphHopper build was killed by the timeout and start() returned
\* False with the build stage unmarked
C17_Witness ==
  /\ engine = "gh"
  /\ pc = "returned"
  /\ result = "False"
  /\ monCaller = "build"
  /\ monExit = "timeout"
  /\ Cardinality(OwnBuilds) = 1
  /\ ~DiskHas(BuildKey(engine))

\* the server children this orchestrator process spawned
OwnServers == {p \in Own : procs[p].kind = "server"}

\* r is what a scan of the port window for two free ports can give
FreshScan(r) ==
  \E occ \in SUBSET {PortWindow[k] : k \in 1..MaxPorts} :
    IF Cardinality(FreeAt(PortWindow, occ)) >= 2
    THEN /\ r.found
         /\ r.ports = <<PortWindow[NthFree(PortWindow, occ, 1)],
                        PortWindow[NthFree(PortWindow, occ, 2)]>>
    ELSE ~r.found

C18_Step ==
  (attempts' = attempts + 1 /\ args.dynamically_allocate_ports) =>
    /\ FreshScan(ports')
    /\ IF ports'.found
       THEN /\ port' = [set |-> TRUE, tuple |-> FALSE, n |-> ports'.ports[1]]
            /\ \/ pc' = "raised" /\ procs' = procs
               \/ /\ pc' = "mon"
                  /\ Len(procs') = Len(procs) + 1
                  /\ proc' = Len(procs')
                  /\ i' = i
       ELSE /\ procs' = procs
            /\ proc' = proc
            /\ port' = port
            /\ pc' = "start"
            /\ i' = i + 1
            /\ result' = result

C18_Inv ==
  /\ attempts <= 3
  /\ (pc \notin {"exited", "raised"} /\ args.dynamically_allocate_ports)
     => Cardinality(OwnServers) <= attempts
  /\ (pc = "start" /\ attempts = 3) => i = 3

\* C18: with dynamic allocation every start attempt scans the port range
\* anew before it spawns; an attempt whose scan finds no two free ports
\* spawns nothing, leaves self.port alone, and uses up one of the 3 turns of
\* the loop.
C18_PortsPerAttempt == [] C18_Inv /\ [][C18_Step]_vars

\* the first attempt found no ports and spawned nothing, the second found
\* two and spawned the server
C18_Witness ==
  /\ args.dynamically_allocate_ports
  /\ pc = "mon"
  /\ monCaller = "start"
  /\ attempts = 2
  /\ i = 1
  /\ ports.found
  /\ Cardinality(OwnServers) = 1

\* C19: when start() has returned True, self.proc is the server spawned by
\* the last attempt, which the manager has not killed, and self.port is the
\* number of the port that server was given: the first port of the scan
\* under dynamic allocation, the caller's port otherwise.
C19_ServerLeftRunning ==
  (pc = "returned" /\ result = "True") =>
    /\ proc # 0
    /\ proc = Len(procs)
    /\ procs[proc].kind = "server"
    /\ procs[proc].run = runs
    /\ procs[proc].kills = 0
    /\ port.set
    /\ ~port.tuple
    /\ port.n = IF args.dynamically_allocate_ports
                THEN ports.ports[1] ELSE DEFAULT_PORT

\* C20: a start attempt that is being monitored is ended: the monitor
\* returns to start(), or the orchestrator process ends.
C20_StartAttemptEnds ==
  (pc = "mon" /\ monCaller = "start") ~> (pc \in {"started", "exited"})

\* listener lst asks for the kill: it has the key kill_otp, with a true value
KillFlag(lst) == lst.kill_otp = "True"

C21_Inv ==
  /\ monExit = "timeout" => (proc = 0 /\ procs[1].kills = 1 /\ ~procs[1].alive)
  /\ monExit = "rule" =>
       \A k \in 1..Len(listeners) :
         Lowest(listeners, line, k) =>
           IF KillFlag(listeners[k])
           THEN proc = 0 /\ procs[1].kills = 1 /\ ~procs[1].alive
           ELSE proc = 1 /\ procs[1].kills = 0

C21_Step ==
  (pc = "mon" /\ pc' # "mon" /\ monExit' = "rule") =>
    /\ line' = Rstrip(Readline(buf))
    /\ \A k \in 1..Len(listeners) :
         (Lowest(listeners, line', k) /\ KillFlag(listeners[k])) =>
           /\ monRet' = ValueOf(listeners[k])
           /\ proc # 0
           /\ procs'[proc].kills = procs[proc].kills + 1
           /\ proc' = 0

\* C21: in the step in which monitor_proc returns the value of a listener
\* with the kill flag, the kill of the owned process has been issued and
\* the value is that of the listener matched by the line just read; after a
\* return through such a listener or through the timeout self.proc is
\* None, and after a return through a listener without the flag the
\* process is still owned and no kill was issued.
C21_KillBeforeReport == [] C21_Inv /\ [][C21_Step]_vars

\* the monitor returned Failure through a killing listener
C21_Witness ==
  /\ pc = "mon_done"
  /\ monExit = "rule"
  /\ Len(listeners) >= 1
  /\ listeners[1].kill_otp = "True"
  /\ Contains(listeners[1].substring, line)
  /\ monRet = "Failure"
  /\ proc = 0
  /\ procs[1].kills = 1

\* C22: after monitor_proc returned through a listener that carries a
\* callback, that callback has been called once, whatever the other keys of
\* the listener; through a listener without callback none was called.
C22_CallbackFires ==
  monExit = "rule" =>
    \A k \in 1..Len(listeners) :
      Lowest(listeners, line, k) =>
        cbCalls = IF listeners[k].callback THEN 1 ELSE 0

\* C23: the value monitor_proc returns on a timeout differs from the value
\* of every listener of the list it was given by build_graph or start_proc.
C23_TimeoutDistinct ==
  (monCaller \in {"build", "start"} /\ monExit = "timeout") =>
    \A k \in 1..Len(listeners) : monRet # ValueOf(listeners[k])

\* C24: in a start() called with require_gtfs that is past
\* setup_download_data, self.using_gtfs is True.
C24_UsingGtfsWhenRequired ==
  (args.require_gtfs /\ (pc = "atexit" \/ atexit >= 1)) => using_gtfs

\* C25: a start_proc call without dynamic allocation scans no ports and
\* raises nothing before it launches the server; the server it spawns is
\* given the caller's port and is monitored with the start listeners and
\* no timeout, as in a dynamic attempt.
C25_StaticPortMode ==
  [][ (attempts' = attempts + 1 /\ ~args.dynamically_allocate_ports) =>
        /\ ports' = ports
        /\ result' \notin {"UnboundLocalError", "IndexError"}
        /\ pc' = "mon" =>
             /\ Len(procs') = Len(procs) + 1
             /\ procs'[Len(procs')].kind = "server"
             /\ port'.n = DEFAULT_PORT
             /\ listeners' = StartListeners(engine)
             /\ timeout' = NoTimeout ]_vars

\* this step spawns a child of the given kind
Spawns(kind) ==
  /\ Len(procs') = Len(procs) + 1
  /\ procs'[Len(procs')].kind = kind

\* stage s is invoked by this step
Enters(s) == s \notin invoked /\ s \in invoked'

C26_Step ==
  /\ Enters("download_osm") =>
       (invoked = {} /\ attempts = 0 /\ atexit = 0)
  /\ Enters("download_gtfs") =>
       ("build_graph" \notin invoked /\ attempts = 0 /\ atexit = 0)
  /\ Enters("build_graph") => (attempts = 0 /\ atexit = 1)
  /\ Spawns("build") =>
       /\ Enters("build_graph")
       /\ graph_config.t["osm_download_time"]
       /\ DiskHas("osm_download_time")
  /\ Spawns("server") =>
       /\ attempts' = attempts + 1
       /\ graph_config.t[BuildKey(engine)]
       /\ DiskHas(BuildKey(engine))
       /\ LoadedHas(BuildKey(engine)) \/ "build_graph" \in invoked

\* C26: in a start() call the map download, the transit download, the
\* build and the start attempts are entered in this order only; a build
\* process is spawned only after setup_download_data returned True, with
\* the map stage marked; a server process is spawned only with the build
\* marker of the engine in the record, loaded or written by this run.
C26_StageOrdering == [][C26_Step]_vars

\* one GraphHopper run went through every stage and monitors its server
C26_Witness ==
  /\ engine = "gh"
  /\ pc = "mon"
  /\ monCaller = "start"
  /\ invoked = {"download_osm", "download_gtfs", "build_graph"}
  /\ Len(procs) = 2
  /\ procs[1].kind = "build"
  /\ procs[2].kind = "server"
  /\ DiskHas(BuildKey(engine))

\* Popen could not launch the command in this step
SpawnFails == result # "OSError" /\ result' = "OSError"

C27_Step ==
  /\ SpawnFails =>
       /\ pc \in {"build", "start"}
       /\ pc' = "raised"
       /\ procs' = procs
       /\ proc' = 0
       /\ disk' = disk
       /\ toWrite' = toWrite
       /\ graph_config' = graph_config
  /\ (pc = "raised" /\ result = "OSError") =>
       /\ pc' \in {"raised", "exited"}
       /\ Len(procs') = Len(procs)
       /\ attempts' = attempts \/ pc' = "exited"
       /\ disk' = disk
       /\ proc' = 0

\* C27: when subprocess.Popen cannot launch the command, in build_graph or
\* in a start attempt, the OSError leaves start() at once: no process is
\* spawned or owned, no marker is written, and no later step of this run
\* makes a start attempt, spawns or writes the record.
C27_SpawnFailureFatal == [][C27_Step]_vars

\* the launch failed in the second start attempt of a run that built its graph
C27_Witness ==
  /\ pc = "raised"
  /\ result = "OSError"
  /\ attempts = 2
  /\ "build_graph" \in invoked
  /\ proc = 0

\* the listener a reader of whole lines stops at in output s: the first
\* listener matching the first line that matches any; 0 when no line does
RECURSIVE FirstRuleIn(_, _)
FirstRuleIn(s, ls) ==
  IF s = <<>> THEN 0
  ELSE LET raw == Readline(s)
           m == FirstMatch(ls, Rstrip(raw))
       IN  IF m # 0 THEN m
           ELSE FirstRuleIn(SubSeq(s, Len(raw) + 1, Len(s)), ls)

\* monitor_proc returned the value of the listener whole lines of s select
ReturnedRuleOf(s) ==
  LET m == FirstRuleIn(s, listeners)
  IN  IF m = 0 THEN FALSE
      ELSE monExit = "rule" /\ monRet = ListenerValue(listeners[m])

\* C28: when the child writes, in whatever pieces, complete lines of which
\* one contains a listener's substring, monitor_proc eventually returns
\* the value of the listener selected by the first such line, wherever its
\* readline calls fall between the child's writes.
C28_InterleavingIndependent ==
  \A s \in MonScripts :
    (toWrite = s /\ FirstRuleIn(s, listeners) # 0) => <>ReturnedRuleOf(s)

\* the last monitor_proc call ended because self.proc was None at the loop
\* test: terminate() had been called from outside the loop
Stopped == monExit = "loop_end"

\* C29: once terminate() called from outside has ended the monitor loop of
\* a start() call, that call spawns no further process and does not
\* return True.
C29_StopIsFinal ==
  [][Stopped => (Len(procs') = Len(procs) /\ result' # "True")]_vars

\* C30: when the start() call of a fresh manager has returned False, the
\* manager owns no process and every child spawned during the call has had
\* kill() issued on it.
C30_NoChildAfterFailure ==
  (pc = "returned" /\ result = "False") =>
    /\ proc = 0
    /\ \A p \in Own : procs[p].kills >= 1

\* start() returned False after a build and three start attempts, each of
\* which spawned a child
C30_Witness ==
  /\ pc = "returned"
  /\ result = "False"
  /\ attempts = StartAttempts
  /\ Cardinality(OwnBuilds) = 1
  /\ Cardinality(OwnServers) >= 2
  /\ \A p \in Own : procs[p].kills = 1

====
